---------------------------- MODULE Spec2Model ----------------------------
(***************************************************************************)
(* Recurrence rule construction, validation and textual repair of          *)
(* fixEcalendar.                                                           *)
(*                                                                         *)
(* Rule text is a sequence of lexemes.  Every digit, ";", ",", "-", "T"    *)
(* and "Z" is a lexeme of one character; a keyword ("FREQ=", "YEARLY",     *)
(* "BYMONTHDAY=", a weekday code, ...) is one lexeme standing for its      *)
(* characters.  No pattern of the code matches a proper part of a keyword: *)
(* "BYMONTH=" is not a substring of "BYMONTHDAY=", "BYDAY=" is not a       *)
(* substring of "BYMONTHDAY=", and the only look-ahead, (?!T), is handled  *)
(* by the first character of the next lexeme.  Numbers are formatted to    *)
(* and parsed from decimal digits as the code does.                        *)
(*                                                                         *)
(* A date is [year, month, day] with month 1..12 (getMonth() + 1); the     *)
(* process time zone is UTC, so local and UTC calendar fields agree.       *)
(***************************************************************************)
EXTENDS Integers, Sequences, FiniteSets, TLC

\* ------------------------------------------------------------------------
\* Text primitives (String.prototype.includes / replace, template literals)
\* ------------------------------------------------------------------------

DigitChars == <<"0", "1", "2", "3", "4", "5", "6", "7", "8", "9">>

IsDigit(a) == \E i \in 1..10 : DigitChars[i] = a

DigitVal(a) == (CHOOSE i \in 1..10 : DigitChars[i] = a) - 1

\* `${n}` for a non-negative integer
RECURSIVE ToDigits(_)
ToDigits(n) ==
    IF n < 10 THEN <<DigitChars[n + 1]>>
    ELSE ToDigits(n \div 10) \o <<DigitChars[(n % 10) + 1]>>

\* parseInt of a run of digits
RECURSIVE ParseInt(_)
ParseInt(ds) ==
    IF Len(ds) = 0 THEN 0
    ELSE 10 * ParseInt(SubSeq(ds, 1, Len(ds) - 1)) + DigitVal(ds[Len(ds)])

\* String(n).padStart(2, '0')
PadStart2(n) == IF n < 10 THEN <<"0">> \o ToDigits(n) ELSE ToDigits(n)

\* parts.join(sep)
RECURSIVE Join(_, _)
Join(parts, sep) ==
    IF Len(parts) = 0 THEN <<>>
    ELSE IF Len(parts) = 1 THEN parts[1]
    ELSE parts[1] \o sep \o Join(Tail(parts), sep)

StartsAt(t, i, pat) ==
    /\ i >= 1
    /\ i + Len(pat) - 1 <= Len(t)
    /\ \A k \in 1..Len(pat) : t[i + k - 1] = pat[k]

AllDigits(t, i, n) ==
    /\ i + n - 1 <= Len(t)
    /\ \A k \in i..(i + n - 1) : IsDigit(t[k])

includes(t, pat) == \E i \in 1..Len(t) : StartsAt(t, i, pat)

IndexOf(t, pat) ==
    IF includes(t, pat)
    THEN CHOOSE i \in 1..Len(t) :
            StartsAt(t, i, pat) /\ \A j \in 1..(i - 1) : ~StartsAt(t, j, pat)
    ELSE 0

\* replace the n lexemes at position i by repl
Splice(t, i, n, repl) == SubSeq(t, 1, i - 1) \o repl \o SubSeq(t, i + n, Len(t))

\* number of digits in the run starting at i
RECURSIVE DigitRun(_, _)
DigitRun(t, i) ==
    IF i <= Len(t) /\ IsDigit(t[i]) THEN 1 + DigitRun(t, i + 1) ELSE 0

\* number of ";" in the run starting at i
RECURSIVE SemiRun(_, _)
SemiRun(t, i) ==
    IF i <= Len(t) /\ t[i] = ";" THEN 1 + SemiRun(t, i + 1) ELSE 0

\* first character of the lexeme is "T" (the lexemes "T", "TU", "TH")
BeginsWithT(a) == a \in {"T", "TU", "TH"}

sRRULE == <<"RRULE">>
sSemi == <<";">>
sEndOfDay == <<"T", "2", "3", "5", "9", "5", "9", "Z">>

\* ------------------------------------------------------------------------
\* Dates
\* ------------------------------------------------------------------------

NoDate == [year |-> 0, month |-> 0, day |-> 0]

IsLeap(y) == (y % 4 = 0 /\ y % 100 # 0) \/ y % 400 = 0

\* new Date(d).setFullYear(y): 29 February rolls over to 1 March when y is
\* not a leap year
setFullYear(d, y) ==
    IF d.month = 2 /\ d.day = 29 /\ ~IsLeap(y)
    THEN [year |-> y, month |-> 3, day |-> 1]
    ELSE [year |-> y, month |-> d.month, day |-> d.day]

\* ------------------------------------------------------------------------
\* RecurrenceValidator: configuration
\* ------------------------------------------------------------------------

DAILY == 8202
WEEKLY == 8203
MONTHLY == 8204
YEARLY == 8205

AFTER_DATE == 8225
AFTER_COUNT == 8226
NEVER_END == 8227

DEFAULT_CONFIG ==
    [maxYearsDaily |-> 5, maxYearsWeekly |-> 10, maxYearsMonthly |-> 20,
     maxYearsYearly |-> 100, stripSingleOccurrence |-> TRUE,
     logAllChanges |-> TRUE]

getMaxYearsForFrequency(cfg, frequency) ==
    CASE frequency = DAILY -> cfg.maxYearsDaily
      [] frequency = WEEKLY -> cfg.maxYearsWeekly
      [] frequency = MONTHLY -> cfg.maxYearsMonthly
      [] frequency = YEARLY -> cfg.maxYearsYearly
      [] OTHER -> cfg.maxYearsWeekly

calculateYearsSpan(startTime, endTime) == endTime.year - startTime.year

\* ------------------------------------------------------------------------
\* The decoded pattern (RecurrencePattern of pst-extractor)
\* ------------------------------------------------------------------------

\* occurrenceCount is an unsigned field of the binary structure; NoCount
\* stands for an absent (undefined) count
NoCount == -1

\* patternTypeSpecific: null, a boolean array Sun..Sat, a day number, or
\* a MonthNthSpecific {weekdays, nth}
NoDays == <<FALSE, FALSE, FALSE, FALSE, FALSE, FALSE, FALSE>>
SpecificNull == [tag |-> "null", weekdays |-> NoDays, n |-> 0, nth |-> 0]
SpecificWeek(w) == [tag |-> "array", weekdays |-> w, n |-> 0, nth |-> 0]
SpecificDay(d) == [tag |-> "number", weekdays |-> NoDays, n |-> d, nth |-> 0]
SpecificNth(w, k) == [tag |-> "nth", weekdays |-> w, n |-> 0, nth |-> k]

DayCodes == <<"SU", "MO", "TU", "WE", "TH", "FR", "SA">>

\* days.filter((_, i) => weekdays[i]) as a list of day indices
SelectedDays(weekdays) == SelectSeq(<<1, 2, 3, 4, 5, 6, 7>>, LAMBDA i : weekdays[i])


\* The decoded pattern, as the builder and the validator read it
Pattern(f, p, pt, pts, et, ed, oc) ==
    [recurFrequency |-> f, period |-> p, patternType |-> pt,
     patternTypeSpecific |-> pts, endType |-> et, endDate |-> ed,
     occurrenceCount |-> oc]

\* ------------------------------------------------------------------------
\* CalendarExtractor.buildRRuleFromPattern (current version)
\* ------------------------------------------------------------------------

\* the FREQ part with an unknown frequency falling back to WEEKLY
freqPartUnknownWeekly(pattern) ==
    CASE pattern.recurFrequency = DAILY -> <<"FREQ=", "DAILY">>
      [] pattern.recurFrequency = WEEKLY -> <<"FREQ=", "WEEKLY">>
      [] pattern.recurFrequency = MONTHLY -> <<"FREQ=", "MONTHLY">>
      [] pattern.recurFrequency = YEARLY -> <<"FREQ=", "YEARLY">>
      [] OTHER -> <<"FREQ=", "WEEKLY">>

\* FREQ part; an unknown frequency falls back to DAILY
freqPart(pattern) ==
    CASE pattern.recurFrequency = DAILY -> <<"FREQ=", "DAILY">>
      [] pattern.recurFrequency = WEEKLY -> <<"FREQ=", "WEEKLY">>
      [] pattern.recurFrequency = MONTHLY -> <<"FREQ=", "MONTHLY">>
      [] pattern.recurFrequency = YEARLY -> <<"FREQ=", "YEARLY">>
      [] OTHER -> <<"FREQ=", "DAILY">>

\* the INTERVAL part written from one day on (days >= 1)
intervalPartFromOneDay(pattern) ==
    IF pattern.period # 0 /\ pattern.period > 1
    THEN IF pattern.recurFrequency = DAILY
         THEN LET days == pattern.period \div 1440
              IN  IF days >= 1 THEN << <<"INTERVAL=">> \o ToDigits(days) >>
                  ELSE << >>
         ELSE IF pattern.recurFrequency = YEARLY /\ pattern.period = 12
         THEN << >>
         ELSE << <<"INTERVAL=">> \o ToDigits(pattern.period) >>
    ELSE << >>

\* the INTERVAL part with a Daily period written as it is stored
intervalPartDailyRaw(pattern) ==
    IF pattern.period # 0 /\ pattern.period > 1
    THEN IF pattern.recurFrequency = YEARLY /\ pattern.period = 12
         THEN << >>
         ELSE << <<"INTERVAL=">> \o ToDigits(pattern.period) >>
    ELSE << >>

\* the INTERVAL part with a Yearly period of 12 written as it is stored
intervalPartYearlyRaw(pattern) ==
    IF pattern.period # 0 /\ pattern.period > 1
    THEN IF pattern.recurFrequency = DAILY
         THEN LET days == pattern.period \div 1440
              IN  IF days > 1 THEN << <<"INTERVAL=">> \o ToDigits(days) >>
                  ELSE << >>
         ELSE << <<"INTERVAL=">> \o ToDigits(pattern.period) >>
    ELSE << >>

\* INTERVAL part: the list of parts pushed (none or one)
intervalPart(pattern) ==
    IF pattern.period # 0 /\ pattern.period > 1
    THEN IF pattern.recurFrequency = DAILY
         THEN LET days == pattern.period \div 1440
              IN  IF days > 1 THEN << <<"INTERVAL=">> \o ToDigits(days) >>
                  ELSE << >>
         ELSE IF pattern.recurFrequency = YEARLY /\ pattern.period = 12
         THEN << >>
         ELSE << <<"INTERVAL=">> \o ToDigits(pattern.period) >>
    ELSE << >>

\* BYMONTH=<month of startTime>
byMonthOf(startTime) == <<"BYMONTH=">> \o ToDigits(startTime.month)

\* the ordinal with nth 5 written as 5
nthOrdinalLastAsFive(nth) ==
    CASE nth = 1 -> <<"1">>
      [] nth = 2 -> <<"2">>
      [] nth = 3 -> <<"3">>
      [] nth = 4 -> <<"4">>
      [] nth = 5 -> <<"5">>
      [] OTHER -> <<"1">>

\* nthMap[monthNth.nth] || '1'
nthOrdinal(nth) ==
    CASE nth = 1 -> <<"1">>
      [] nth = 2 -> <<"2">>
      [] nth = 3 -> <<"3">>
      [] nth = 4 -> <<"4">>
      [] nth = 5 -> <<"-", "1">>
      [] OTHER -> <<"1">>

\* selectedDays.join(',') with each day prefixed by ordinal
byDayList(weekdays, ordinal) ==
    LET sel == SelectedDays(weekdays)
    IN  Join([i \in 1..Len(sel) |-> ordinal \o <<DayCodes[sel[i]]>>], <<",">>)

\* case 1: Week
weekShape(pattern) ==
    IF pattern.patternTypeSpecific.tag = "array"
       /\ Len(SelectedDays(pattern.patternTypeSpecific.weekdays)) > 0
    THEN << <<"BYDAY=">> \o byDayList(pattern.patternTypeSpecific.weekdays, <<>>) >>
    ELSE << >>

\* case 2, case 4: Month, MonthEnd
monthDayShape(pattern, startTime) ==
    IF pattern.patternTypeSpecific.tag = "number"
    THEN (IF pattern.recurFrequency = YEARLY THEN << byMonthOf(startTime) >> ELSE << >>)
         \o << <<"BYMONTHDAY=">> \o ToDigits(pattern.patternTypeSpecific.n) >>
    ELSE << >>

\* case 3: MonthNth
monthNthShape(pattern, startTime) ==
    LET monthNth == pattern.patternTypeSpecific
    IN  IF monthNth.tag = "nth" /\ monthNth.nth # 0
           /\ Len(SelectedDays(monthNth.weekdays)) > 0
        THEN (IF pattern.recurFrequency = YEARLY THEN << byMonthOf(startTime) >> ELSE << >>)
             \o << <<"BYDAY=">> \o byDayList(monthNth.weekdays, nthOrdinal(monthNth.nth)) >>
        ELSE << >>

\* pattern type specific parts
shapePart(pattern, startTime) ==
    IF pattern.patternTypeSpecific.tag # "null"
    THEN CASE pattern.patternType = 1 -> weekShape(pattern)
           [] pattern.patternType \in {2, 4} -> monthDayShape(pattern, startTime)
           [] pattern.patternType = 3 -> monthNthShape(pattern, startTime)
           [] OTHER -> << >>
    ELSE << >>

\* COUNT preferred only below 50
countPreferredBelow50(pattern) ==
    /\ pattern.endDate.year < 1900
    /\ pattern.occurrenceCount # NoCount
    /\ pattern.occurrenceCount # 0
    /\ pattern.occurrenceCount > 1
    /\ pattern.occurrenceCount < 50

\* corrupted end date with a small occurrenceCount: COUNT is preferred
countPreferred(pattern) ==
    /\ pattern.endDate.year < 1900
    /\ pattern.occurrenceCount # NoCount
    /\ pattern.occurrenceCount # 0
    /\ pattern.occurrenceCount > 1
    /\ pattern.occurrenceCount <= 50

\* the year written in UNTIL without the span cap
untilYearUncapped(cfg, pattern, startTime) ==
    IF pattern.endDate.year < 1900 \/ pattern.endDate.year > 2100
    THEN 2100
    ELSE pattern.endDate.year

\* the year written in UNTIL: corrupted years are projected to 2100 and
\* capped to the frequency's span, and no year exceeds 2100
untilYear(cfg, pattern, startTime) ==
    LET originalYear == pattern.endDate.year
        maxYears == getMaxYearsForFrequency(cfg, pattern.recurFrequency)
        sanitized ==
            IF originalYear < 1900
            THEN IF 2100 - startTime.year > maxYears
                 THEN startTime.year + maxYears
                 ELSE 2100
            ELSE originalYear
    IN  IF sanitized > 2100 THEN 2100 ELSE sanitized

\* UNTIL written as a bare date
untilPartBareDate(cfg, pattern, startTime) ==
    <<"UNTIL=">> \o ToDigits(untilYear(cfg, pattern, startTime))
        \o PadStart2(pattern.endDate.month) \o PadStart2(pattern.endDate.day)

\* UNTIL=<endYear><month><day>T235959Z
untilPart(cfg, pattern, startTime) ==
    <<"UNTIL=">> \o ToDigits(untilYear(cfg, pattern, startTime))
        \o PadStart2(pattern.endDate.month) \o PadStart2(pattern.endDate.day)
        \o sEndOfDay

\* the end condition with COUNT written whenever occurrenceCount is positive
endPartCountWithUntil(cfg, pattern, startTime) ==
    CASE pattern.endType = AFTER_DATE ->
            (IF pattern.endDate # NoDate
             THEN << untilPart(cfg, pattern, startTime) >>
             ELSE << >>)
            \o (IF pattern.occurrenceCount # NoCount /\ pattern.occurrenceCount > 0
                THEN << <<"COUNT=">> \o ToDigits(pattern.occurrenceCount) >>
                ELSE << >>)
      [] pattern.endType = AFTER_COUNT ->
            IF pattern.occurrenceCount # NoCount /\ pattern.occurrenceCount > 0
            THEN << <<"COUNT=">> \o ToDigits(pattern.occurrenceCount) >>
            ELSE << >>
      [] OTHER -> << >>

\* end condition parts
endPart(cfg, pattern, startTime) ==
    CASE pattern.endType = AFTER_DATE ->
            IF pattern.endDate # NoDate
            THEN IF countPreferred(pattern)
                 THEN << <<"COUNT=">> \o ToDigits(pattern.occurrenceCount) >>
                 ELSE << untilPart(cfg, pattern, startTime) >>
            ELSE << >>
      [] pattern.endType = AFTER_COUNT ->
            IF pattern.occurrenceCount # NoCount /\ pattern.occurrenceCount > 0
            THEN << <<"COUNT=">> \o ToDigits(pattern.occurrenceCount) >>
            ELSE << >>
      [] OTHER -> << >>

buildRRuleFromPattern(cfg, pattern, startTime) ==
    Join(<< sRRULE, freqPart(pattern) >> \o intervalPart(pattern)
            \o shapePart(pattern, startTime) \o endPart(cfg, pattern, startTime),
         sSemi)

\* ------------------------------------------------------------------------
\* RecurrenceValidator.validateRecurrencePattern
\* ------------------------------------------------------------------------

\* a null rule (string | null), and the undefined result of the extractor
NullRule == <<"null">>
Undefined == <<"undefined">>

\* !rrule : null and the empty string are falsy
Falsy(rrule) == rrule = NullRule \/ rrule = Undefined \/ rrule = <<>>

\* /UNTIL=\d{8}T\d{6}Z/ matches at i
UntilWithTimeAt(t, i) ==
    /\ StartsAt(t, i, <<"UNTIL=">>)
    /\ AllDigits(t, i + 1, 8)
    /\ StartsAt(t, i + 9, <<"T">>)
    /\ AllDigits(t, i + 10, 6)
    /\ StartsAt(t, i + 16, <<"Z">>)

DateDigits(d) == ToDigits(d.year) \o PadStart2(d.month) \o PadStart2(d.day)

\* the replacement matching only the date of UNTIL, as /UNTIL=\d{8}/ would
rebuildRRuleDateOnlyMatch(rrule, cappedEnd) ==
    IF \E i \in 1..Len(rrule) : StartsAt(rrule, i, <<"UNTIL=">>) /\ AllDigits(rrule, i + 1, 8)
    THEN LET i == CHOOSE i \in 1..Len(rrule) :
                    /\ StartsAt(rrule, i, <<"UNTIL=">>) /\ AllDigits(rrule, i + 1, 8)
                    /\ \A j \in 1..(i - 1) :
                          ~(StartsAt(rrule, j, <<"UNTIL=">>) /\ AllDigits(rrule, j + 1, 8))
         IN  Splice(rrule, i, 9, <<"UNTIL=">> \o DateDigits(cappedEnd) \o sEndOfDay)
    ELSE rrule

rebuildRRuleWithCappedUntil(rrule, cappedEnd) ==
    IF \E i \in 1..Len(rrule) : UntilWithTimeAt(rrule, i)
    THEN LET i == CHOOSE i \in 1..Len(rrule) :
                    /\ UntilWithTimeAt(rrule, i)
                    /\ \A j \in 1..(i - 1) : ~UntilWithTimeAt(rrule, j)
         IN  Splice(rrule, i, 17, <<"UNTIL=">> \o DateDigits(cappedEnd) \o sEndOfDay)
    ELSE rrule

\* the single-occurrence check made only for count-based recurrences
isSingleOccurrenceCountBased(cfg, pattern) ==
    /\ cfg.stripSingleOccurrence
    /\ pattern.occurrenceCount = 1
    /\ pattern.endType = AFTER_COUNT

\* the single-occurrence check
isSingleOccurrence(cfg, pattern) ==
    cfg.stripSingleOccurrence /\ pattern.occurrenceCount = 1

\* the span check: the end date lies more than maxYears after the start
exceedsSpan(cfg, pattern, startTime) ==
    /\ pattern.endType = AFTER_DATE
    /\ pattern.endDate # NoDate
    /\ calculateYearsSpan(startTime, pattern.endDate)
          > getMaxYearsForFrequency(cfg, pattern.recurFrequency)

validateRecurrencePattern(cfg, pattern, startTime, rrule) ==
    IF Falsy(rrule) THEN NullRule
    ELSE IF isSingleOccurrence(cfg, pattern) THEN NullRule
    ELSE IF exceedsSpan(cfg, pattern, startTime)
    THEN rebuildRRuleWithCappedUntil(rrule,
            setFullYear(startTime,
                startTime.year + getMaxYearsForFrequency(cfg, pattern.recurFrequency)))
    ELSE rrule


\* ------------------------------------------------------------------------
\* CalendarExtractor.buildRRuleFromPattern before sanitization (the version
\* whose output the textual repair pass was written for)
\* ------------------------------------------------------------------------

legacyIntervalPart(pattern) ==
    IF pattern.period # 0 /\ pattern.period > 1
    THEN << <<"INTERVAL=">> \o ToDigits(pattern.period) >>
    ELSE << >>

legacyShapePart(pattern) ==
    IF pattern.patternTypeSpecific.tag # "null"
    THEN CASE pattern.patternType = 1 -> weekShape(pattern)
           [] pattern.patternType \in {2, 4} ->
                IF pattern.patternTypeSpecific.tag = "number"
                THEN << <<"BYMONTHDAY=">> \o ToDigits(pattern.patternTypeSpecific.n) >>
                ELSE << >>
           [] pattern.patternType = 3 ->
                LET monthNth == pattern.patternTypeSpecific
                IN  IF monthNth.tag = "nth" /\ monthNth.nth # 0
                       /\ Len(SelectedDays(monthNth.weekdays)) > 0
                    THEN << <<"BYDAY=">>
                              \o byDayList(monthNth.weekdays, nthOrdinal(monthNth.nth)) >>
                    ELSE << >>
           [] OTHER -> << >>
    ELSE << >>

legacyEndPart(pattern) ==
    CASE pattern.endType = AFTER_DATE ->
            IF pattern.endDate # NoDate
            THEN << <<"UNTIL=">> \o DateDigits(pattern.endDate) >>
            ELSE << >>
      [] pattern.endType = AFTER_COUNT ->
            IF pattern.occurrenceCount # NoCount /\ pattern.occurrenceCount > 0
            THEN << <<"COUNT=">> \o ToDigits(pattern.occurrenceCount) >>
            ELSE << >>
      [] OTHER -> << >>

buildRRuleFromPatternLegacy(pattern) ==
    Join(<< sRRULE, freqPart(pattern) >> \o legacyIntervalPart(pattern)
            \o legacyShapePart(pattern) \o legacyEndPart(pattern),
         sSemi)

\* ------------------------------------------------------------------------
\* sanitize-recurrence-dates.ts: one entry of sanitizeRecurrenceDates
\* ------------------------------------------------------------------------

\* /UNTIL=\d{8}/ matches at i
UntilDateAt(t, i) == StartsAt(t, i, <<"UNTIL=">>) /\ AllDigits(t, i + 1, 8)

FirstUntilDate(t) ==
    IF \E i \in 1..Len(t) : UntilDateAt(t, i)
    THEN CHOOSE i \in 1..Len(t) :
            UntilDateAt(t, i) /\ \A j \in 1..(i - 1) : ~UntilDateAt(t, j)
    ELSE 0

\* a year before 1900 is replaced by 2100, month and day are kept
sanitizeEntry(t) ==
    LET i == FirstUntilDate(t)
    IN  IF i = 0 THEN t
        ELSE IF ParseInt(SubSeq(t, i + 1, i + 4)) < 1900
        THEN Splice(t, i + 1, 4, <<"2", "1", "0", "0">>)
        ELSE t

\* ------------------------------------------------------------------------
\* export-to-ical.ts: the recurrence fixes of rowToEntry
\* ------------------------------------------------------------------------

\* replace(/INTERVAL=12;?/, '')
stripInterval12(t) ==
    LET i == IndexOf(t, <<"INTERVAL=", "1", "2">>)
    IN  IF i = 0 THEN t
        ELSE IF StartsAt(t, i + 3, sSemi) THEN Splice(t, i, 4, <<>>)
        ELSE Splice(t, i, 3, <<>>)

\* replace(/;;/g, ';') from position i
RECURSIVE collapsePairs(_, _)
collapsePairs(t, i) ==
    IF i > Len(t) THEN <<>>
    ELSE IF StartsAt(t, i, <<";", ";">>) THEN sSemi \o collapsePairs(t, i + 2)
    ELSE <<t[i]>> \o collapsePairs(t, i + 1)

\* replace(/;;+/g, ';') from position i
RECURSIVE collapseRuns(_, _)
collapseRuns(t, i) ==
    IF i > Len(t) THEN <<>>
    ELSE IF SemiRun(t, i) >= 2 THEN sSemi \o collapseRuns(t, i + SemiRun(t, i))
    ELSE <<t[i]>> \o collapseRuns(t, i + 1)

\* replace(/;$/, '')
stripTrailingSemi(t) ==
    IF Len(t) > 0 /\ t[Len(t)] = ";" THEN SubSeq(t, 1, Len(t) - 1) ELSE t

\* replace(/UNTIL=(\d{8})(?!T)/g, 'UNTIL=$1T235959Z') from position i
RECURSIVE addUntilTime(_, _)
addUntilTime(t, i) ==
    IF i > Len(t) THEN <<>>
    ELSE IF UntilDateAt(t, i) /\ ~(i + 9 <= Len(t) /\ BeginsWithT(t[i + 9]))
    THEN SubSeq(t, i, i + 8) \o sEndOfDay \o addUntilTime(t, i + 9)
    ELSE <<t[i]>> \o addUntilTime(t, i + 1)

\* the replacement of one INTERVAL=<minutes> match
dailyInterval(minutes) ==
    LET days == ParseInt(minutes) \div 1440
    IN  IF days > 1 THEN <<"INTERVAL=">> \o ToDigits(days) ELSE <<>>

\* replace(/INTERVAL=(\d+)/g, ...) from position i
RECURSIVE minutesToDays(_, _)
minutesToDays(t, i) ==
    IF i > Len(t) THEN <<>>
    ELSE IF t[i] = "INTERVAL=" /\ DigitRun(t, i + 1) >= 1
    THEN dailyInterval(SubSeq(t, i + 1, i + DigitRun(t, i + 1)))
            \o minutesToDays(t, i + 1 + DigitRun(t, i + 1))
    ELSE <<t[i]>> \o minutesToDays(t, i + 1)

\* Fix: yearly recurrence with INTERVAL=12
fixYearlyInterval(t) ==
    IF includes(t, <<"FREQ=", "YEARLY">>) /\ includes(t, <<"INTERVAL=", "1", "2">>)
    THEN collapsePairs(stripInterval12(t), 1)
    ELSE t

\* Fix: UNTIL must include a time component
fixUntilTime(t) ==
    IF includes(t, <<"UNTIL=">>) THEN addUntilTime(t, 1) ELSE t

\* Fix: daily intervals stored as minutes
fixDailyInterval(t) ==
    IF includes(t, <<"FREQ=", "DAILY">>) /\ includes(t, <<"INTERVAL=">>)
    THEN stripTrailingSemi(collapseRuns(minutesToDays(t, 1), 1))
    ELSE t

\* parseInt(startDate.substring(5, 7)) of the row's YYYY-MM-DD start date
startMonth(startDate) == ParseInt(PadStart2(startDate.month))

\* Fix: yearly BYMONTHDAY needs BYMONTH
fixYearlyByMonthDay(t, startDate) ==
    IF includes(t, <<"FREQ=", "YEARLY">>) /\ includes(t, <<"BYMONTHDAY=">>)
       /\ ~includes(t, <<"BYMONTH=">>)
    THEN Splice(t, IndexOf(t, <<"BYMONTHDAY=">>), 1,
                <<"BYMONTH=">> \o ToDigits(startMonth(startDate))
                    \o <<";", "BYMONTHDAY=">>)
    ELSE t

\* the BYDAY fix made without looking for a BYMONTH already in the text
fixYearlyByDayUnchecked(t, startDate) ==
    IF includes(t, <<"FREQ=", "YEARLY">>) /\ includes(t, <<"BYDAY=">>)
    THEN LET i == IndexOf(t, <<"FREQ=", "YEARLY">>)
             n == IF StartsAt(t, i + 2, sSemi) THEN 3 ELSE 2
         IN  Splice(t, i, n,
                    <<"FREQ=", "YEARLY", ";", "BYMONTH=">>
                        \o ToDigits(startMonth(startDate)) \o sSemi)
    ELSE t

\* Fix: yearly BYDAY needs BYMONTH; replace(/FREQ=YEARLY;?/, ...)
fixYearlyByDay(t, startDate) ==
    IF includes(t, <<"FREQ=", "YEARLY">>) /\ includes(t, <<"BYDAY=">>)
       /\ ~includes(t, <<"BYMONTH=">>)
    THEN LET i == IndexOf(t, <<"FREQ=", "YEARLY">>)
             n == IF StartsAt(t, i + 2, sSemi) THEN 3 ELSE 2
         IN  Splice(t, i, n,
                    <<"FREQ=", "YEARLY", ";", "BYMONTH=">>
                        \o ToDigits(startMonth(startDate)) \o sSemi)
    ELSE t

\* /UNTIL=\d{4}(\d{4}T\d{6}Z)/ matches at i
UntilAnyYearAt(t, i) == UntilWithTimeAt(t, i)

\* /UNTIL=2100\d{4}T\d{6}Z/ matches at i
Until2100At(t, i) ==
    StartsAt(t, i, <<"UNTIL=", "2", "1", "0", "0">>) /\ UntilWithTimeAt(t, i)

\* one frequency's block of the UNTIL=2100 fix
capSentinel(t, startDate, freqName, maxYears) ==
    IF includes(t, <<"FREQ=", freqName>>) /\ 2100 - startDate.year > maxYears
    THEN LET cappedYear == startDate.year + maxYears
             dateSuffix ==
                IF \E i \in 1..Len(t) : UntilAnyYearAt(t, i)
                THEN LET i == CHOOSE i \in 1..Len(t) :
                                /\ UntilAnyYearAt(t, i)
                                /\ \A j \in 1..(i - 1) : ~UntilAnyYearAt(t, j)
                     IN  SubSeq(t, i + 5, i + 16)
                ELSE <<"1", "2", "3", "1">> \o sEndOfDay
         IN  IF \E i \in 1..Len(t) : Until2100At(t, i)
             THEN LET i == CHOOSE i \in 1..Len(t) :
                                /\ Until2100At(t, i)
                                /\ \A j \in 1..(i - 1) : ~Until2100At(t, j)
                  IN  Splice(t, i, 17, <<"UNTIL=">> \o ToDigits(cappedYear) \o dateSuffix)
             ELSE t
    ELSE t

\* Fix: suspicious UNTIL=2100 (daily 5, weekly 10, monthly 20; yearly untouched)
fixSentinelUntil(t, startDate) ==
    IF includes(t, <<"UNTIL=", "2", "1", "0", "0">>)
    THEN capSentinel(capSentinel(capSentinel(t, startDate, "DAILY", 5),
                                 startDate, "WEEKLY", 10),
                     startDate, "MONTHLY", 20)
    ELSE t

\* the recurrence fixes of rowToEntry, in the order of the code; an empty
\* field is falsy and skips every fix
rowToEntry(recurrencePattern, startDate) ==
    IF recurrencePattern = <<>> THEN <<>>
    ELSE fixSentinelUntil(
            fixYearlyByDay(
                fixYearlyByMonthDay(
                    fixDailyInterval(fixUntilTime(fixYearlyInterval(recurrencePattern))),
                    startDate),
                startDate),
            startDate)


\* ------------------------------------------------------------------------
\* CalendarExtractor.extractRecurrencePattern
\* ------------------------------------------------------------------------

\* recurrenceType of an appointment without one
NoType == -1

\* what the regular expressions of the fallback find in the appointment's
\* human-readable recurrence text: a weekday name (index into DayCodes, 0 if
\* none), an ordinal word before it (1..5, 0 if none), "day N" (NoType if
\* none) and "every N <unit>" (0 if none); present is FALSE for an empty text
NoText == [present |-> FALSE, day |-> 0, ordinal |-> 0, dayOfMonth |-> -1, every |-> 0]

fallbackFreq(inferredType) ==
    CASE inferredType = 0 -> <<"FREQ=", "DAILY">>
      [] inferredType = 1 -> <<"FREQ=", "WEEKLY">>
      [] inferredType = 2 -> <<"FREQ=", "MONTHLY">>
      [] inferredType = 3 -> <<"FREQ=", "YEARLY">>
      [] OTHER -> <<"FREQ=", "DAILY">>

fallbackDetails(text) ==
    IF text.present
    THEN (IF text.day # 0
          THEN << <<"BYDAY=">>
                    \o (IF text.ordinal # 0 THEN nthOrdinal(text.ordinal) ELSE <<>>)
                    \o <<DayCodes[text.day]>> >>
          ELSE << >>)
         \o (IF text.dayOfMonth # -1
             THEN << <<"BYMONTHDAY=">> \o ToDigits(text.dayOfMonth) >>
             ELSE << >>)
         \o (IF text.every > 1
             THEN << <<"INTERVAL=">> \o ToDigits(text.every) >>
             ELSE << >>)
    ELSE << >>

\* the path taken when the appointment has no binary recurrence structure
extractFallback(appointment) ==
    IF appointment.recurrenceType = NoType /\ ~appointment.birthday
    THEN Undefined
    ELSE LET inferredType ==
                IF appointment.recurrenceType = NoType THEN 3
                ELSE appointment.recurrenceType
         IN  Join(<< sRRULE, fallbackFreq(inferredType) >>
                    \o fallbackDetails(appointment.recurrencePattern), sSemi)

\* const rawRRule = this.buildRRuleFromPattern(pattern, startTime); null when
\* the structured path is not taken
rawRRule(cfg, appointment, startTime) ==
    IF appointment.recurrenceStructure /\ appointment.decodes
    THEN buildRRuleFromPattern(cfg, appointment.pattern, startTime)
    ELSE NullRule

\* const validatedRRule = RecurrenceValidator.validateRecurrencePattern(...)
validatedRRule(cfg, appointment, startTime) ==
    validateRecurrencePattern(cfg, appointment.pattern, startTime,
        rawRRule(cfg, appointment, startTime))

\* the validator's result returned as it is
orUndefinedPassNull(rrule) == rrule

\* validatedRRule || undefined
orUndefined(rrule) == IF Falsy(rrule) THEN Undefined ELSE rrule

\* the value returned from the catch block
sRECURRING == <<"RECURRING">>

\* appointment.decodes is FALSE when reading or decoding the recurrence
\* structure throws inside the try block
extractRecurrencePattern(cfg, appointment, startTime) ==
    IF appointment.recurrenceStructure
    THEN IF appointment.decodes
         THEN orUndefined(validatedRRule(cfg, appointment, startTime))
         ELSE sRECURRING
    ELSE extractFallback(appointment)

\* the same method before validation was added
extractRecurrencePatternLegacy(appointment) ==
    IF appointment.recurrenceStructure
    THEN IF appointment.decodes
         THEN buildRRuleFromPatternLegacy(appointment.pattern)
         ELSE sRECURRING
    ELSE extractFallback(appointment)

\* export-to-csv.ts: entry.recurrence_pattern || ''
csvField(recurrence_pattern) ==
    IF Falsy(recurrence_pattern) THEN <<>> ELSE recurrence_pattern

\* ------------------------------------------------------------------------
\* RecurrenceValidator.validateAndCap
\* ------------------------------------------------------------------------

FreqNames == {"DAILY", "WEEKLY", "MONTHLY", "YEARLY"}

\* /FREQ=(DAILY|WEEKLY|MONTHLY|YEARLY)/ matches at i
FreqMatchAt(t, i) ==
    StartsAt(t, i, <<"FREQ=">>) /\ i + 1 <= Len(t) /\ t[i + 1] \in FreqNames

\* freqMatch[1], or "none" when there is no match
firstFrequency(t) ==
    IF \E i \in 1..Len(t) : FreqMatchAt(t, i)
    THEN t[(CHOOSE i \in 1..Len(t) :
                FreqMatchAt(t, i) /\ \A j \in 1..(i - 1) : ~FreqMatchAt(t, j)) + 1]
    ELSE "none"

\* the switch on the frequency name
maxYearsForName(cfg, frequency) ==
    CASE frequency = "DAILY" -> cfg.maxYearsDaily
      [] frequency = "WEEKLY" -> cfg.maxYearsWeekly
      [] frequency = "MONTHLY" -> cfg.maxYearsMonthly
      [] frequency = "YEARLY" -> cfg.maxYearsYearly
      [] OTHER -> cfg.maxYearsWeekly

\* parseInt(untilMatch[1].substring(0, 4)) of the first /UNTIL=(\d{8})/
firstUntilYear(t) == ParseInt(SubSeq(t, FirstUntilDate(t) + 1, FirstUntilDate(t) + 4))

\* validateAndCap capping only when the change is logged
validateAndCapWhenLogged(cfg, rruleString, startTime) ==
    LET kept == [modified |-> FALSE, newPattern |-> rruleString]
        frequency == firstFrequency(rruleString)
        i == FirstUntilDate(rruleString)
    IN  IF frequency = "none" THEN kept
        ELSE IF i = 0 THEN kept
        ELSE LET maxYears == maxYearsForName(cfg, frequency)
                 yearsSpan == firstUntilYear(rruleString) - startTime.year
                 cappedEnd == setFullYear(startTime, startTime.year + maxYears)
             IN  IF yearsSpan > maxYears /\ cfg.logAllChanges
                 THEN [modified |-> TRUE,
                       newPattern |->
                          Splice(rruleString, i,
                                 IF UntilWithTimeAt(rruleString, i) THEN 17 ELSE 9,
                                 <<"UNTIL=">> \o DateDigits(cappedEnd) \o sEndOfDay)]
                 ELSE kept

\* the result's modified flag and newPattern
validateAndCap(cfg, rruleString, startTime) ==
    LET kept == [modified |-> FALSE, newPattern |-> rruleString]
        frequency == firstFrequency(rruleString)
        i == FirstUntilDate(rruleString)
    IN  IF frequency = "none" THEN kept
        ELSE IF i = 0 THEN kept
        ELSE LET maxYears == maxYearsForName(cfg, frequency)
                 yearsSpan == firstUntilYear(rruleString) - startTime.year
                 cappedEnd == setFullYear(startTime, startTime.year + maxYears)
             IN  IF yearsSpan > maxYears
                 THEN [modified |-> TRUE,
                       newPattern |->
                          Splice(rruleString, i,
                                 IF UntilWithTimeAt(rruleString, i) THEN 17 ELSE 9,
                                 <<"UNTIL=">> \o DateDigits(cappedEnd) \o sEndOfDay)]
                 ELSE kept

\* the notices validateAndCap hands to the logger: a warning when it caps,
\* written only with logAllChanges and a subject that is not empty
validateAndCapNotices(cfg, rruleString, startTime, subject) ==
    IF /\ validateAndCap(cfg, rruleString, startTime).modified
       /\ cfg.logAllChanges
       /\ subject # ""
    THEN {<<"warn", "Capped", subject>>}
    ELSE {}

\* the notices validateRecurrencePattern hands to the logger
validateRecurrencePatternNotices(cfg, pattern, startTime, subject, rrule) ==
    IF Falsy(rrule) THEN {}
    ELSE IF isSingleOccurrence(cfg, pattern)
    THEN (IF cfg.logAllChanges THEN {<<"warn", "Stripping", subject>>} ELSE {})
    ELSE IF exceedsSpan(cfg, pattern, startTime)
    THEN (IF cfg.logAllChanges THEN {<<"warn", "Capping", subject>>} ELSE {})
    ELSE IF pattern.recurFrequency = DAILY /\ pattern.period >= 7 /\ cfg.logAllChanges
    THEN {<<"info", "Daily", subject>>}
    ELSE {}

\* ------------------------------------------------------------------------
\* The batch jobs over the database: sanitize-recurrence-dates.ts,
\* cleanup-suspicious-recurrence.ts, cleanup-yearly-byday.ts and the export
\* ------------------------------------------------------------------------

CleanupJobs == {"sanitize", "suspicious", "yearly-byday"}

JobNames == CleanupJobs \cup {"export"}

\* the WHERE clause of every job but yearly-byday; LIKE is false on NULL
selectedByOthers(name, t) ==
    /\ ~Falsy(t)
    /\ CASE name = "sanitize" -> includes(t, <<"UNTIL=">>)
         [] name = "suspicious" -> includes(t, <<"UNTIL=", "2", "1", "0", "0">>)
         [] OTHER -> TRUE

\* yearly-byday selecting every yearly BYDAY rule, with BYMONTH or without
selectedByAnyYearlyByDay(name, t) ==
    IF name = "yearly-byday"
    THEN /\ ~Falsy(t)
         /\ includes(t, <<"FREQ=", "YEARLY">>)
         /\ includes(t, <<"BYDAY=">>)
    ELSE selectedByOthers(name, t)

\* the WHERE clause of the job's query
selectedBy(name, t) ==
    IF name = "yearly-byday"
    THEN /\ ~Falsy(t)
         /\ includes(t, <<"FREQ=", "YEARLY">>)
         /\ includes(t, <<"BYDAY=">>)
         /\ ~includes(t, <<"BYMONTH=">>)
    ELSE selectedByOthers(name, t)

\* cleanup-yearly-byday: replace(/FREQ=YEARLY;?/, `FREQ=YEARLY;BYMONTH=${month};`)
insertByMonth(t, startDate) ==
    LET i == IndexOf(t, <<"FREQ=", "YEARLY">>)
        n == IF StartsAt(t, i + 2, sSemi) THEN 3 ELSE 2
    IN  IF i = 0 THEN t
        ELSE Splice(t, i, n,
                    <<"FREQ=", "YEARLY", ";", "BYMONTH=">>
                        \o ToDigits(startDate.month) \o sSemi)

\* the recurrence_pattern a job leaves in one selected record; t is the text
\* the query returned for it
jobWrites(name, cfg, t, startDate) ==
    CASE name = "sanitize" -> sanitizeEntry(t)
      [] name = "suspicious" ->
            IF validateAndCap(cfg, t, startDate).modified
            THEN validateAndCap(cfg, t, startDate).newPattern
            ELSE t
      [] name = "yearly-byday" -> insertByMonth(t, startDate)
      [] OTHER -> t

\* the database after one uninterrupted run of the job
runJob(name, cfg, recs) ==
    [i \in 1..Len(recs) |->
        IF selectedBy(name, recs[i].recurrence_pattern)
        THEN jobWrites(name, cfg, recs[i].recurrence_pattern, recs[i].startTime)
        ELSE recs[i].recurrence_pattern]

\* ------------------------------------------------------------------------
\* Inputs
\* ------------------------------------------------------------------------

\* occurrence counts 0..MaxSmallCount besides absent, 50 and 51
MaxSmallCount == 2

\* Daily periods of 1..MaxDays whole days, in minutes
MaxDays == 3

\* the four known frequencies and a value that is none of them
Frequencies == {DAILY, WEEKLY, MONTHLY, YEARLY, 8206}

\* months of a Yearly pattern: one, two and ten years
Periods == {1, 12, 24, 120} \cup {1440 * k : k \in {1, MaxDays}}

Days(s) == [i \in 1..7 |-> i \in s]

Shapes ==
    { <<0, SpecificNull>>,
      <<1, SpecificWeek(Days({2, 6}))>>,
      <<2, SpecificDay(13)>>,
      <<4, SpecificDay(31)>>,
      <<3, SpecificNth(Days({7}), 5)>>,
      <<3, SpecificNth(Days({2, 4}), 2)>>,
      <<5, SpecificDay(13)>> }

Date(y, m, d) == [year |-> y, month |-> m, day |-> d]

EndDates == {Date(1600, 12, 31), Date(1600, 1, 1), Date(2030, 6, 15), Date(2150, 2, 10)}

Counts == {NoCount, 50, 51} \cup (0..MaxSmallCount)

Ends ==
    ({AFTER_DATE} \X EndDates \X (Counts \ {0}))
        \cup {<<AFTER_DATE, NoDate, NoCount>>}
        \cup ({AFTER_COUNT} \X {NoDate} \X {0, 1, 50})
        \cup ({NEVER_END} \X {NoDate} \X {NoCount, 1})

StartTimes == {Date(1990, 6, 13), Date(2022, 1, 1), Date(2096, 2, 29)}

Patterns ==
    { Pattern(f, p, sh[1], sh[2], e[1], e[2], e[3]) :
        f \in Frequencies, p \in Periods, sh \in Shapes, e \in Ends }

NoPattern == Pattern(0, 0, 0, SpecificNull, NEVER_END, NoDate, NoCount)

\* appointments with a binary recurrence structure that decodes
Decoded ==
    { [recurrenceStructure |-> TRUE, decodes |-> TRUE, pattern |-> p,
       recurrenceType |-> NoType, birthday |-> FALSE, recurrencePattern |-> NoText] :
        p \in Patterns }

\* an appointment whose recurrence structure cannot be decoded
Undecodable ==
    { [recurrenceStructure |-> TRUE, decodes |-> FALSE, pattern |-> NoPattern,
       recurrenceType |-> NoType, birthday |-> FALSE, recurrencePattern |-> NoText] }

Texts ==
    { NoText,
      [present |-> TRUE, day |-> 2, ordinal |-> 2, dayOfMonth |-> -1, every |-> 0],
      [present |-> TRUE, day |-> 0, ordinal |-> 0, dayOfMonth |-> 1, every |-> 2] }

\* appointments without a binary recurrence structure
Unstructured ==
    { [recurrenceStructure |-> FALSE, decodes |-> TRUE, pattern |-> NoPattern,
       recurrenceType |-> ty, birthday |-> b, recurrencePattern |-> tx] :
        ty \in {NoType, 0, 3}, b \in BOOLEAN, tx \in Texts }

Appointments == Decoded \cup Undecodable \cup Unstructured

\* ------------------------------------------------------------------------
\* One calendar entry through import, database repair and export
\* ------------------------------------------------------------------------

VARIABLES
    config,             \* RecurrenceValidator.config
    appointment,        \* the appointment being imported
    startTime,          \* its start
    pc,                 \* the step reached
    version,            \* the extractor that imported it: "legacy" or "current"
    recurrence_pattern, \* the entry's recurrence_pattern in the database
    exported,           \* recurrencePattern of the entry made by rowToEntry
    reexported,         \* the same, made from the exported text
    rrule,              \* a rule handed to validateRecurrencePattern
    validated,          \* what it returned
    revalidated         \* what it returned for that result

\* the database of a batch and the job running over it
VARIABLES
    records,            \* the entries: appointment, startTime, version,
                        \* recurrence_pattern, exported
    job,                \* the job run last or running now, "none" before any
    running,            \* a run of the job is in progress
    selected,           \* the rows its query returned: id, recurrence_pattern
    cursor,             \* the row of selected handled next
    snapshot,           \* the entries when the job was first started
    crashes,            \* interrupted runs of the job
    interrupted,        \* a run was interrupted between two of its rows
    finished            \* completed runs of the job

entry == <<version, recurrence_pattern, exported, reexported>>

batch == <<records, job, running, selected, cursor, snapshot, crashes,
           interrupted, finished>>

\* no batch: the database is not part of the behaviour
NoBatch ==
    /\ records = <<>>
    /\ job = "none"
    /\ running = FALSE
    /\ selected = <<>>
    /\ cursor = 0
    /\ snapshot = <<>>
    /\ crashes = 0
    /\ interrupted = FALSE
    /\ finished = 0

calls == <<rrule, validated, revalidated>>

vars == <<config, appointment, startTime, pc, entry, calls, batch>>

Init ==
    /\ config = DEFAULT_CONFIG
    /\ appointment \in Appointments
    /\ startTime \in StartTimes
    /\ pc = "appointment"
    /\ version = "none"
    /\ recurrence_pattern = Undefined
    /\ exported = <<>>
    /\ reexported = <<>>
    /\ rrule = NullRule
    /\ validated = NullRule
    /\ revalidated = NullRule
    /\ NoBatch

\* import by the current extractor
Extract ==
    /\ pc = "appointment"
    /\ pc' = "imported"
    /\ version' = "current"
    /\ recurrence_pattern' = extractRecurrencePattern(config, appointment, startTime)
    /\ rrule' = rawRRule(config, appointment, startTime)
    /\ validated' = validatedRRule(config, appointment, startTime)
    /\ UNCHANGED <<config, appointment, startTime, exported, reexported, revalidated, batch>>

\* import by the extractor before sanitization
ExtractLegacy ==
    /\ pc = "appointment"
    /\ pc' = "imported"
    /\ version' = "legacy"
    /\ recurrence_pattern' = extractRecurrencePatternLegacy(appointment)
    /\ UNCHANGED <<config, appointment, startTime, exported, reexported, calls, batch>>

\* sanitize-recurrence-dates.ts updates the entry
Sanitize ==
    /\ pc = "imported"
    /\ ~Falsy(recurrence_pattern)
    /\ includes(recurrence_pattern, <<"UNTIL=">>)
    /\ sanitizeEntry(recurrence_pattern) # recurrence_pattern
    /\ recurrence_pattern' = sanitizeEntry(recurrence_pattern)
    /\ UNCHANGED <<config, appointment, startTime, pc, version, exported,
                   reexported, calls, batch>>

\* export-to-csv then export-to-ical: rowToEntry on the entry's row
Export ==
    /\ pc = "imported"
    /\ pc' = "exported"
    /\ exported' = rowToEntry(csvField(recurrence_pattern), startTime)
    /\ UNCHANGED <<config, appointment, startTime, version, recurrence_pattern,
                   reexported, calls, batch>>

\* rowToEntry run again on a row that holds the exported text
Reexport ==
    /\ pc = "exported"
    /\ pc' = "reexported"
    /\ reexported' = rowToEntry(exported, startTime)
    /\ UNCHANGED <<config, appointment, startTime, version, recurrence_pattern,
                   exported, calls, batch>>

Next == Extract \/ ExtractLegacy \/ Sanitize \/ Export \/ Reexport

Spec == Init /\ [][Next]_vars

\* ------------------------------------------------------------------------
\* validateRecurrencePattern called on a rule, then on its own result
\* ------------------------------------------------------------------------

\* RecurrenceValidator.setConfig: { ...DEFAULT_CONFIG, ...config }
setConfig(partial) ==
    [k \in DOMAIN DEFAULT_CONFIG |->
        IF k \in DOMAIN partial THEN partial[k] ELSE DEFAULT_CONFIG[k]]

Overrides ==
    { [maxYearsDaily |-> 1],
      [stripSingleOccurrence |-> FALSE],
      [logAllChanges |-> FALSE],
      [maxYearsWeekly |-> 3, maxYearsYearly |-> 50] }

\* the patterns the validator tells apart: it reads the frequency, the end
\* condition and occurrenceCount
ValidatedPatterns ==
    { Pattern(f, 1440, sh[1], sh[2], e[1], e[2], e[3]) :
        f \in Frequencies,
        sh \in {<<0, SpecificNull>>, <<2, SpecificDay(13)>>},
        e \in Ends }

TwoUntils ==
    <<"RRULE", ";", "FREQ=", "DAILY", ";", "UNTIL=">> \o DateDigits(Date(2100, 12, 31))
        \o sEndOfDay \o <<";", "UNTIL=">> \o DateDigits(Date(2150, 2, 10)) \o sEndOfDay

\* rules handed to the validator: what either builder makes of the pattern,
\* a text with two UNTIL parts, the empty string and null
Drafts(pattern, start) ==
    { buildRRuleFromPattern(DEFAULT_CONFIG, pattern, start),
      buildRRuleFromPatternLegacy(pattern),
      TwoUntils, <<>>, NullRule }

InitValidate ==
    /\ config = DEFAULT_CONFIG
    /\ appointment \in
        { [recurrenceStructure |-> TRUE, decodes |-> TRUE, pattern |-> p,
           recurrenceType |-> NoType, birthday |-> FALSE,
           recurrencePattern |-> NoText] : p \in ValidatedPatterns }
    /\ startTime \in StartTimes
    /\ pc = "draft"
    /\ version = "none"
    /\ recurrence_pattern = Undefined
    /\ exported = <<>>
    /\ reexported = <<>>
    /\ rrule \in Drafts(appointment.pattern, startTime)
    /\ validated = NullRule
    /\ revalidated = NullRule
    /\ NoBatch

SetConfig ==
    /\ pc = "draft"
    /\ \E partial \in Overrides : config' = setConfig(partial)
    /\ UNCHANGED <<appointment, startTime, pc, entry, calls, batch>>

Validate ==
    /\ pc = "draft"
    /\ pc' = "validated"
    /\ validated' = validateRecurrencePattern(config, appointment.pattern, startTime, rrule)
    /\ UNCHANGED <<config, appointment, startTime, entry, rrule, revalidated, batch>>

Revalidate ==
    /\ pc = "validated"
    /\ pc' = "revalidated"
    /\ revalidated' =
          validateRecurrencePattern(config, appointment.pattern, startTime, validated)
    /\ UNCHANGED <<config, appointment, startTime, entry, rrule, validated, batch>>

\* validateAndCap called on the rule text
Cap ==
    /\ pc = "draft"
    /\ rrule # NullRule
    /\ pc' = "capped"
    /\ validated' = validateAndCap(config, rrule, startTime).newPattern
    /\ UNCHANGED <<config, appointment, startTime, entry, rrule, revalidated, batch>>

\* rowToEntry run on a row that holds the same rule text
Repair ==
    /\ pc = "capped"
    /\ pc' = "repaired"
    /\ exported' = rowToEntry(rrule, startTime)
    /\ UNCHANGED <<config, appointment, startTime, version, recurrence_pattern,
                   reexported, calls, batch>>

NextValidate == SetConfig \/ Validate \/ Revalidate \/ Cap \/ Repair

SpecValidate == InitValidate /\ [][NextValidate]_vars

\* ------------------------------------------------------------------------
\* A batch: appointments imported in any order, then jobs run over the
\* database, interrupted and run again
\* ------------------------------------------------------------------------

\* the ids of the entries of the database: two, so that a job can be
\* interrupted between two rows
EntryIds == 1..2

\* interrupted runs of one job
MaxCrashes == 1

\* the jobs in the order they are started in; any of them may be left out
JobOrder == <<"sanitize", "suspicious", "yearly-byday", "export">>

\* position of the job in JobOrder, 0 for "none"
jobPosition(name) ==
    IF name = "none" THEN 0 ELSE CHOOSE k \in 1..Len(JobOrder) : JobOrder[k] = name

DecodedAppointment(p) ==
    [recurrenceStructure |-> TRUE, decodes |-> TRUE, pattern |-> p,
     recurrenceType |-> NoType, birthday |-> FALSE, recurrencePattern |-> NoText]

\* an appointment without a recurrence structure: a birthday whose text names
\* a weekday and a day of the month
BirthdayAppointment ==
    [recurrenceStructure |-> FALSE, decodes |-> TRUE, pattern |-> NoPattern,
     recurrenceType |-> NoType, birthday |-> TRUE,
     recurrencePattern |->
        [present |-> TRUE, day |-> 2, ordinal |-> 0, dayOfMonth |-> 13, every |-> 0]]

\* appointments of a batch with their starts: a daily series with a corrupted
\* end date, yearly series on weekdays and on a day of the month, a weekly
\* series ending after 2100, a birthday
BatchItems ==
    { <<DecodedAppointment(Pattern(DAILY, 1440, 0, SpecificNull,
                                   AFTER_DATE, Date(1600, 12, 31), NoCount)),
        Date(1990, 6, 13)>>,
      <<DecodedAppointment(Pattern(DAILY, 1440, 0, SpecificNull,
                                   AFTER_DATE, Date(1600, 12, 31), NoCount)),
        Date(2096, 2, 29)>>,
      <<DecodedAppointment(Pattern(YEARLY, 12, 1, SpecificWeek(Days({2, 6})),
                                   NEVER_END, NoDate, NoCount)),
        Date(1990, 6, 13)>>,
      <<DecodedAppointment(Pattern(YEARLY, 12, 3, SpecificNth(Days({7}), 5),
                                   AFTER_DATE, Date(1600, 1, 1), NoCount)),
        Date(1990, 6, 13)>>,
      <<DecodedAppointment(Pattern(WEEKLY, 1, 1, SpecificWeek(Days({2, 6})),
                                   AFTER_DATE, Date(2150, 2, 10), NoCount)),
        Date(1990, 6, 13)>>,
      <<DecodedAppointment(Pattern(YEARLY, 12, 2, SpecificDay(13),
                                   NEVER_END, NoDate, NoCount)),
        Date(1990, 6, 13)>>,
      <<BirthdayAppointment, Date(2022, 1, 1)>> }

\* the configuration left with a daily cap of one year
configCappedAfterExtract(cfg) == [cfg EXCEPT !.maxYearsDaily = 1]

\* RecurrenceValidator.config after extractRecurrencePattern has run: neither
\* the extractor nor the validator assigns it
configAfterExtract(cfg) == cfg

InitBatch ==
    /\ config = DEFAULT_CONFIG
    /\ appointment = DecodedAppointment(NoPattern)
    /\ startTime = NoDate
    /\ pc = "batch"
    /\ version = "none"
    /\ recurrence_pattern = Undefined
    /\ exported = <<>>
    /\ reexported = <<>>
    /\ rrule = NullRule
    /\ validated = NullRule
    /\ revalidated = NullRule
    /\ records \in
        [EntryIds ->
            { [appointment |-> it[1], startTime |-> it[2], version |-> "none",
               recurrence_pattern |-> Undefined, exported |-> <<>>] :
                it \in BatchItems }]
    /\ job = "none"
    /\ running = FALSE
    /\ selected = <<>>
    /\ cursor = 0
    /\ snapshot = <<>>
    /\ crashes = 0
    /\ interrupted = FALSE
    /\ finished = 0

single == <<appointment, startTime, pc, entry, calls>>

run == <<job, running, selected, cursor, snapshot, crashes, interrupted,
         finished>>

\* the caller configures the validator before the batch
SetConfigBatch ==
    /\ pc = "batch"
    /\ \A i \in 1..Len(records) : records[i].version = "none"
    /\ config = DEFAULT_CONFIG
    /\ \E partial \in Overrides : config' = setConfig(partial)
    /\ UNCHANGED <<single, batch>>

\* one appointment imported by the current extractor
Import ==
    /\ pc = "batch"
    /\ job = "none"
    /\ \E i \in 1..Len(records) :
        /\ records[i].version = "none"
        /\ records' =
              [records EXCEPT
                 ![i].version = "current",
                 ![i].recurrence_pattern =
                    extractRecurrencePattern(config, records[i].appointment,
                                             records[i].startTime)]
    /\ config' = configAfterExtract(config)
    /\ UNCHANGED <<single, run>>

\* one appointment imported by the extractor before sanitization
ImportLegacy ==
    /\ pc = "batch"
    /\ job = "none"
    /\ \E i \in 1..Len(records) :
        /\ records[i].version = "none"
        /\ records' =
              [records EXCEPT
                 ![i].version = "legacy",
                 ![i].recurrence_pattern =
                    extractRecurrencePatternLegacy(records[i].appointment)]
    /\ UNCHANGED <<config, single, run>>

\* the rows returned by the job's query
query(name, recs) ==
    LET ids == SelectSeq([i \in 1..Len(recs) |-> i],
                         LAMBDA i : selectedBy(name, recs[i].recurrence_pattern))
    IN  [k \in 1..Len(ids) |->
            [id |-> ids[k], recurrence_pattern |-> recs[ids[k]].recurrence_pattern]]

\* a job is started: for the first time, again after an interruption, or
\* once more after it has completed
StartJob ==
    /\ pc = "batch"
    /\ \A i \in 1..Len(records) : records[i].version # "none"
    /\ ~running
    /\ \E name \in JobNames :
        /\ IF name = job
           THEN /\ finished < 2
                /\ UNCHANGED <<snapshot, crashes, interrupted, finished>>
           ELSE /\ job = "none" \/ finished >= 1
                /\ jobPosition(name) > jobPosition(job)
                /\ snapshot' = records
                /\ crashes' = 0
                /\ interrupted' = FALSE
                /\ finished' = 0
        /\ job' = name
        /\ selected' = query(name, records)
    /\ running' = TRUE
    /\ cursor' = 1
    /\ UNCHANGED <<config, single, records>>

\* the body of the job's loop for one row
Step ==
    /\ running
    /\ cursor <= Len(selected)
    /\ LET row == selected[cursor]
       IN  records' =
              IF job = "export"
              THEN [records EXCEPT
                      ![row.id].exported =
                         rowToEntry(csvField(row.recurrence_pattern),
                                    records[row.id].startTime)]
              ELSE [records EXCEPT
                      ![row.id].recurrence_pattern =
                         jobWrites(job, config, row.recurrence_pattern,
                                   records[row.id].startTime)]
    /\ cursor' = cursor + 1
    /\ UNCHANGED <<config, single, job, running, selected, snapshot,
                   crashes, interrupted, finished>>

\* the process is killed: the rows written so far stay written
Crash ==
    /\ running
    /\ crashes < MaxCrashes
    /\ running' = FALSE
    /\ crashes' = crashes + 1
    /\ interrupted' = (interrupted \/ (1 < cursor /\ cursor <= Len(selected)))
    /\ selected' = <<>>
    /\ cursor' = 0
    /\ UNCHANGED <<config, single, records, job, snapshot, finished>>

\* the loop has handled every row
Finish ==
    /\ running
    /\ cursor > Len(selected)
    /\ running' = FALSE
    /\ finished' = finished + 1
    /\ selected' = <<>>
    /\ cursor' = 0
    /\ UNCHANGED <<config, single, records, job, snapshot, crashes,
                   interrupted>>

NextBatch ==
    SetConfigBatch \/ Import \/ ImportLegacy \/ StartJob \/ Step \/ Crash \/ Finish

SpecBatch == InitBatch /\ [][NextBatch]_vars


\* ------------------------------------------------------------------------
\* One entry with a MonthNth pattern: every set of weekdays, every ordinal
\* ------------------------------------------------------------------------

\* nth as stored: 1..5, and 0 and 6 which are no ordinal
NthValues == 0..6

WeekdaySets == [1..7 -> BOOLEAN]

NthPatterns ==
    { Pattern(f, 1, 3, SpecificNth(w, k), e[1], e[2], NoCount) :
        f \in {MONTHLY, YEARLY}, w \in WeekdaySets, k \in NthValues,
        e \in {<<NEVER_END, NoDate>>, <<AFTER_DATE, Date(1600, 12, 31)>>} }

InitNth ==
    /\ config = DEFAULT_CONFIG
    /\ appointment \in {DecodedAppointment(p) : p \in NthPatterns}
    /\ startTime = Date(1990, 6, 13)
    /\ pc = "appointment"
    /\ version = "none"
    /\ recurrence_pattern = Undefined
    /\ exported = <<>>
    /\ reexported = <<>>
    /\ rrule = NullRule
    /\ validated = NullRule
    /\ revalidated = NullRule
    /\ NoBatch

SpecNth == InitNth /\ [][Next]_vars

\* ------------------------------------------------------------------------
\* Properties
\* ------------------------------------------------------------------------

\* the entry was imported by the current extractor from a decoded pattern
Structured ==
    version = "current" /\ appointment.recurrenceStructure /\ appointment.decodes

KnownFrequencies == {DAILY, WEEKLY, MONTHLY, YEARLY}

\* the default span of each frequency, in years
DefaultCap(f) ==
    CASE f = DAILY -> 5
      [] f = WEEKLY -> 10
      [] f = MONTHLY -> 20
      [] f = YEARLY -> 100

\* the text has the parameter key with exactly this value
HasParam(t, key, value) ==
    \E i \in 1..Len(t) :
        /\ StartsAt(t, i, <<key>> \o value)
        /\ (i + 1 + Len(value) > Len(t) \/ t[i + 1 + Len(value)] = ";")

Has(t, key) == includes(t, <<key>>)

UntilPositions(t) == {i \in 1..Len(t) : t[i] = "UNTIL="}

\* the end date is corrupted and no occurrenceCount can replace it
CorruptedEndNoCount(pattern) ==
    /\ pattern.endType = AFTER_DATE
    /\ pattern.endDate # NoDate
    /\ pattern.endDate.year < 1900
    /\ (pattern.occurrenceCount = NoCount \/ pattern.occurrenceCount > 50)

\* C1: validating a validated rule changes nothing, under any configuration
\* set before the two calls; a null result stays null
C1_ValidateIdempotent == pc = "revalidated" => revalidated = validated

\* a rule whose UNTIL was capped by the first call has been validated again
C1_Witness ==
    /\ pc = "revalidated"
    /\ ~Falsy(validated)
    /\ validated # rrule
    /\ config # DEFAULT_CONFIG

\* C2: under the default configuration a pattern with occurrenceCount 1
\* yields no recurrence, whatever its frequency, shape, interval and end type
C2_SingleOccurrenceStripped ==
    (Structured /\ config = DEFAULT_CONFIG /\ appointment.pattern.occurrenceCount = 1)
        => recurrence_pattern = Undefined

C2_Witness ==
    /\ Structured
    /\ appointment.pattern.occurrenceCount = 1
    /\ appointment.pattern.endType = AFTER_DATE
    /\ appointment.pattern.endDate.year = 2150
    /\ appointment.pattern.recurFrequency = DAILY
    /\ recurrence_pattern = Undefined

\* C3: a corrupted end date without a usable occurrenceCount gives an UNTIL
\* at the end of a day no later than the start year plus the frequency's cap
C3_CorruptedUntilCapped ==
    (/\ Structured
     /\ config = DEFAULT_CONFIG
     /\ appointment.pattern.recurFrequency \in KnownFrequencies
     /\ CorruptedEndNoCount(appointment.pattern)
     /\ startTime.year >= 1900)
        => /\ ~Falsy(recurrence_pattern)
           /\ UntilPositions(recurrence_pattern) # {}
           /\ \A i \in UntilPositions(recurrence_pattern) :
                /\ UntilWithTimeAt(recurrence_pattern, i)
                /\ SubSeq(recurrence_pattern, i + 9, i + 16) = sEndOfDay
                /\ ParseInt(SubSeq(recurrence_pattern, i + 1, i + 4))
                      <= startTime.year + DefaultCap(appointment.pattern.recurFrequency)

\* a weekly rule capped to ten years after 1990
C3_Witness ==
    /\ Structured
    /\ appointment.pattern.recurFrequency = WEEKLY
    /\ CorruptedEndNoCount(appointment.pattern)
    /\ startTime.year = 1990
    /\ includes(recurrence_pattern, <<"UNTIL=", "2", "0", "0", "0">>)

\* the daily pattern of the end-to-end scenario: start 2022-01-01, period
\* 1440, an end date in 1600, no occurrenceCount
C4_Scenario ==
    /\ Structured
    /\ config = DEFAULT_CONFIG
    /\ startTime = Date(2022, 1, 1)
    /\ appointment.pattern.recurFrequency = DAILY
    /\ appointment.pattern.patternType = 0
    /\ appointment.pattern.period = 1440
    /\ appointment.pattern.endType = AFTER_DATE
    /\ appointment.pattern.endDate.year = 1600
    /\ appointment.pattern.occurrenceCount = NoCount

\* C4 as stated: the scenario yields FREQ=DAILY;UNTIL=20270101T235959Z
\* whatever the month and day of the end date
C4_ScenarioAnyEndDay ==
    C4_Scenario =>
        recurrence_pattern =
            <<"RRULE", ";", "FREQ=", "DAILY", ";", "UNTIL=",
              "2", "0", "2", "7", "0", "1", "0", "1">> \o sEndOfDay

\* C4 amended: the scenario yields FREQ=DAILY;UNTIL=2027MMDDT235959Z with
\* the month and day of the end date, and no INTERVAL
C4_ScenarioKeepsEndDay ==
    C4_Scenario =>
        recurrence_pattern =
            <<"RRULE", ";", "FREQ=", "DAILY", ";", "UNTIL=", "2", "0", "2", "7">>
                \o PadStart2(appointment.pattern.endDate.month)
                \o PadStart2(appointment.pattern.endDate.day) \o sEndOfDay

\* the scenario with the end date 1600-12-31
C4_Witness ==
    /\ C4_Scenario
    /\ appointment.pattern.endDate = Date(1600, 12, 31)
    /\ includes(recurrence_pattern, <<"UNTIL=", "2", "0", "2", "7", "1", "2", "3", "1">>)

\* C5: a yearly rule of the structured path with BYMONTHDAY or BYDAY has
\* BYMONTH equal to the month of the event start
C5_YearlyHasByMonth ==
    (/\ Structured
     /\ ~Falsy(recurrence_pattern)
     /\ includes(recurrence_pattern, <<"FREQ=", "YEARLY">>)
     /\ (Has(recurrence_pattern, "BYMONTHDAY=") \/ Has(recurrence_pattern, "BYDAY=")))
        => HasParam(recurrence_pattern, "BYMONTH=", ToDigits(startTime.month))

\* C6: rowToEntry returns a rule of the structured path unchanged
C6_RepairIsIdentity ==
    (Structured /\ pc \in {"exported", "reexported"} /\ ~Falsy(recurrence_pattern))
        => exported = recurrence_pattern

\* C7: for a pattern without occurrenceCount, rowToEntry on the sanitized
\* text of the earlier builder gives the rule of the structured path
C7_RepairMatchesStructuredPath ==
    (/\ version = "legacy"
     /\ appointment.recurrenceStructure
     /\ appointment.decodes
     /\ appointment.pattern.occurrenceCount = NoCount
     /\ sanitizeEntry(recurrence_pattern) = recurrence_pattern
     /\ pc \in {"exported", "reexported"})
        => exported = csvField(extractRecurrencePattern(config, appointment, startTime))

\* C8: rowToEntry applied to its own result returns it unchanged
C8_RepairIdempotent == pc = "reexported" => reexported = exported

UnknownFrequency ==
    Structured /\ appointment.pattern.recurFrequency \notin KnownFrequencies

\* the pattern type and its data make the builder write BYDAY
WritesByDay(pattern) ==
    \/ /\ pattern.patternType = 1
       /\ pattern.patternTypeSpecific.tag = "array"
       /\ Len(SelectedDays(pattern.patternTypeSpecific.weekdays)) > 0
    \/ /\ pattern.patternType = 3
       /\ pattern.patternTypeSpecific.tag = "nth"
       /\ pattern.patternTypeSpecific.nth # 0
       /\ Len(SelectedDays(pattern.patternTypeSpecific.weekdays)) > 0

\* the pattern type and its data make the builder write BYMONTHDAY
WritesByMonthDay(pattern) ==
    pattern.patternType \in {2, 4} /\ pattern.patternTypeSpecific.tag = "number"

C13_CountOrUntilNotBoth ==
    Structured
        => /\ ~(Has(rrule, "COUNT=") /\ Has(rrule, "UNTIL="))
           /\ Falsy(validated) \/ ~(Has(validated, "COUNT=") /\ Has(validated, "UNTIL="))

\* an end date of 2030 with occurrenceCount 50: UNTIL is written, COUNT is not
C13_Witness ==
    /\ Structured
    /\ appointment.pattern.endType = AFTER_DATE
    /\ appointment.pattern.endDate.year = 2030
    /\ appointment.pattern.occurrenceCount = 50
    /\ Has(validated, "UNTIL=")
    /\ ~Has(validated, "COUNT=")

\* every UNTIL of the text is UNTIL=YYYYMMDDT235959Z
EveryUntilEndsDay(t) ==
    \A i \in UntilPositions(t) :
        UntilWithTimeAt(t, i) /\ SubSeq(t, i + 9, i + 16) = sEndOfDay

\* C14: every UNTIL of a rule of the structured path is YYYYMMDDT235959Z, and
\* no bare-date UNTIL is left in a text returned by rowToEntry
C14_UntilHasTime ==
    /\ (Structured /\ ~Falsy(recurrence_pattern))
            => EveryUntilEndsDay(rrule) /\ EveryUntilEndsDay(recurrence_pattern)
    /\ pc \in {"exported", "reexported"}
            => \A i \in UntilPositions(exported) : UntilWithTimeAt(exported, i)

\* a bare-date UNTIL of the earlier builder exported with a time
C14_Witness ==
    /\ version = "legacy"
    /\ pc = "exported"
    /\ \E i \in UntilPositions(recurrence_pattern) :
            UntilDateAt(recurrence_pattern, i) /\ ~UntilWithTimeAt(recurrence_pattern, i)
    /\ \E i \in UntilPositions(exported) : UntilWithTimeAt(exported, i)

\* C15: a Daily pattern with period m has INTERVAL=floor(m/1440) exactly when
\* that is above 1, and no INTERVAL otherwise
C15_DailyIntervalInDays ==
    (Structured /\ appointment.pattern.recurFrequency = DAILY)
        => LET days == appointment.pattern.period \div 1440
           IN  IF days > 1
               THEN HasParam(rrule, "INTERVAL=", ToDigits(days))
               ELSE ~Has(rrule, "INTERVAL=")

\* a Daily period of several days in minutes written as INTERVAL=<days>
C15_Witness ==
    /\ Structured
    /\ appointment.pattern.recurFrequency = DAILY
    /\ appointment.pattern.period = 1440 * MaxDays
    /\ HasParam(rrule, "INTERVAL=", ToDigits(MaxDays))

\* C16: a Yearly pattern with period 12 has no INTERVAL, whatever its pattern
\* type and end condition
C16_YearlyTwelveNoInterval ==
    (/\ Structured
     /\ appointment.pattern.recurFrequency = YEARLY
     /\ appointment.pattern.period = 12)
        => ~Has(rrule, "INTERVAL=")

\* a Yearly rule of period 12 on a day of the month, without INTERVAL
C16_Witness ==
    /\ Structured
    /\ appointment.pattern.recurFrequency = YEARLY
    /\ appointment.pattern.period = 12
    /\ appointment.pattern.patternType = 2
    /\ StartsAt(rrule, 1, <<"RRULE", ";", "FREQ=", "YEARLY", ";", "BYMONTH=">>)

\* the end date of the pattern is written as UNTIL and lies further from the
\* start than the frequency's cap: a corrupted one after its projection to
\* 2100, any other by its own year
SpanCapped(cfg, pattern, start) ==
    /\ pattern.endType = AFTER_DATE
    /\ pattern.endDate # NoDate
    /\ ~countPreferred(pattern)
    /\ IF pattern.endDate.year < 1900
       THEN 2100 - start.year > getMaxYearsForFrequency(cfg, pattern.recurFrequency)
       ELSE pattern.endDate.year - start.year
                > getMaxYearsForFrequency(cfg, pattern.recurFrequency)

\* C19: an UNTIL capped for span is the start year plus the cap with the
\* month and day of the original end date, for a corrupted end date and for
\* one that is merely too far away alike
C19_CappedUntilKeepsEndDay ==
    (/\ Structured
     /\ ~Falsy(recurrence_pattern)
     /\ SpanCapped(config, appointment.pattern, startTime))
        => HasParam(recurrence_pattern, "UNTIL=",
                ToDigits(startTime.year
                    + getMaxYearsForFrequency(config, appointment.pattern.recurFrequency))
                \o PadStart2(appointment.pattern.endDate.month)
                \o PadStart2(appointment.pattern.endDate.day) \o sEndOfDay)

\* the digits of the first INTERVAL of the text
IntervalDigits(t) ==
    LET i == IndexOf(t, <<"INTERVAL=">>)
    IN  SubSeq(t, i + 1, i + DigitRun(t, i + 1))

\* C20: rowToEntry leaves the INTERVAL of a FREQ=DAILY text unchanged when it
\* is below 1440
C20_DailyIntervalInDaysKept ==
    (/\ pc \in {"exported", "reexported"}
     /\ ~Falsy(recurrence_pattern)
     /\ includes(recurrence_pattern, <<"FREQ=", "DAILY">>)
     /\ Has(recurrence_pattern, "INTERVAL=")
     /\ ParseInt(IntervalDigits(recurrence_pattern)) < 1440)
        => HasParam(exported, "INTERVAL=", IntervalDigits(recurrence_pattern))

\* the recurrence_pattern column of the entries
patternsOf(recs) == [i \in 1..Len(recs) |-> recs[i].recurrence_pattern]

C18_CrashAndRerunSafe ==
    (job \in CleanupJobs /\ finished >= 1)
        => patternsOf(records) = runJob(job, config, snapshot)

\* cleanup-suspicious-recurrence changes both records; it was interrupted
\* between them, run again to completion and then run once more
C18_Witness ==
    /\ job = "suspicious"
    /\ interrupted
    /\ finished = 2
    /\ ~running
    /\ \A i \in 1..Len(records) :
          records[i].recurrence_pattern # snapshot[i].recurrence_pattern

\* C12: after the caller has overridden the cap of a frequency, rowToEntry
\* caps a rule of that frequency whose UNTIL=2100 lies further from the start
\* than the configured cap at the start year plus that cap
C12_ConfiguredCapOnExport ==
    \A i \in 1..Len(records) :
        LET before == records[i].recurrence_pattern
            after == records[i].exported
            frequency == firstFrequency(before)
            maxYears == maxYearsForName(config, frequency)
        IN  (/\ job = "export"
             /\ after # <<>>
             /\ frequency # "none"
             /\ maxYears # maxYearsForName(DEFAULT_CONFIG, frequency)
             /\ FirstUntilDate(before) # 0
             /\ firstUntilYear(before) = 2100
             /\ 2100 - records[i].startTime.year > maxYears)
                => /\ FirstUntilDate(after) # 0
                   /\ firstUntilYear(after) = records[i].startTime.year + maxYears

\* the month and day of the first UNTIL of the text
firstUntilDay(t) == SubSeq(t, FirstUntilDate(t) + 5, FirstUntilDate(t) + 8)

\* the row holds a text with a frequency whose first UNTIL is in 2100, and
\* rowToEntry has been run on it
SentinelExported ==
    /\ pc \in {"exported", "reexported"}
    /\ ~Falsy(recurrence_pattern)
    /\ firstFrequency(recurrence_pattern) # "none"
    /\ FirstUntilDate(recurrence_pattern) # 0
    /\ firstUntilYear(recurrence_pattern) = 2100

\* C21: for a text whose UNTIL is in 2100, rowToEntry writes the start year
\* plus the default cap of the frequency when 2100 lies further from the
\* start than that cap, for each of the four frequencies, and keeps 2100
\* otherwise; month and day are kept
C21_SentinelCappedEveryFrequency ==
    SentinelExported
        => LET cap == maxYearsForName(DEFAULT_CONFIG, firstFrequency(recurrence_pattern))
           IN  /\ FirstUntilDate(exported) # 0
               /\ firstUntilYear(exported) =
                     (IF 2100 - startTime.year > cap THEN startTime.year + cap ELSE 2100)
               /\ firstUntilDay(exported) = firstUntilDay(recurrence_pattern)

\* C22: for a FREQ=YEARLY text, rowToEntry removes INTERVAL exactly when its
\* value is 12 and returns any other INTERVAL, INTERVAL=120 included, as it is
C22_YearlyIntervalTwelveOnly ==
    (/\ pc \in {"exported", "reexported"}
     /\ ~Falsy(recurrence_pattern)
     /\ includes(recurrence_pattern, <<"FREQ=", "YEARLY">>)
     /\ Has(recurrence_pattern, "INTERVAL="))
        => IF IntervalDigits(recurrence_pattern) = <<"1", "2">>
           THEN ~Has(exported, "INTERVAL=")
           ELSE HasParam(exported, "INTERVAL=", IntervalDigits(recurrence_pattern))

\* the text is a yearly rule with BYMONTHDAY or BYDAY and without BYMONTH
YearlyMissingByMonth(t) ==
    /\ ~Falsy(t)
    /\ includes(t, <<"FREQ=", "YEARLY">>)
    /\ (Has(t, "BYMONTHDAY=") \/ Has(t, "BYDAY="))
    /\ ~Has(t, "BYMONTH=")

\* C23: given a yearly rule with BYMONTHDAY or BYDAY and without BYMONTH,
\* validateRecurrencePattern returns, when it returns a rule, one that has
\* BYMONTH equal to the month of the event start
C23_ValidatorAddsByMonth ==
    (YearlyMissingByMonth(rrule) /\ ~Falsy(validated))
        => HasParam(validated, "BYMONTH=", ToDigits(startTime.month))

\* number of parameters key in the text
CountOf(t, key) == Cardinality({i \in 1..Len(t) : t[i] = key})

\* the digits of the first BYMONTH of the text
ByMonthDigits(t) ==
    LET i == IndexOf(t, <<"BYMONTH=">>)
    IN  SubSeq(t, i + 1, i + DigitRun(t, i + 1))

\* the text has exactly one BYMONTH, that of the month
OneByMonth(t, month) ==
    CountOf(t, "BYMONTH=") = 1 /\ HasParam(t, "BYMONTH=", ToDigits(month))

\* C24: cleanup-yearly-byday gives a yearly BYDAY text without BYMONTH exactly
\* one BYMONTH, the month of the start, and leaves a text with BYMONTH as it
\* is; rowToEntry gives a yearly text with BYMONTHDAY or BYDAY and without
\* BYMONTH exactly one BYMONTH, the month of the start, and returns the
\* BYMONTH of a text that has one as it is
C24_ExactlyOneByMonth ==
    \A i \in 1..Len(records) :
        LET stored == records[i].recurrence_pattern
            month == records[i].startTime.month
        IN  /\ (/\ job = "yearly-byday"
                /\ finished >= 1
                /\ YearlyMissingByMonth(snapshot[i].recurrence_pattern)
                /\ Has(snapshot[i].recurrence_pattern, "BYDAY="))
                    => OneByMonth(stored, month)
            /\ (/\ job = "yearly-byday"
                /\ ~Falsy(snapshot[i].recurrence_pattern)
                /\ Has(snapshot[i].recurrence_pattern, "BYMONTH="))
                    => stored = snapshot[i].recurrence_pattern
            /\ (job = "export" /\ records[i].exported # <<>>)
                    => /\ YearlyMissingByMonth(stored)
                            => OneByMonth(records[i].exported, month)
                       /\ Has(stored, "BYMONTH=")
                            => /\ CountOf(records[i].exported, "BYMONTH=")
                                    = CountOf(stored, "BYMONTH=")
                               /\ ByMonthDigits(records[i].exported) = ByMonthDigits(stored)

\* the export of a yearly BYMONTHDAY text that got its BYMONTH from rowToEntry
\* and of a yearly BYDAY text that got it from cleanup-yearly-byday
C24_Witness ==
    /\ job = "export"
    /\ records[1].exported # <<>>
    /\ records[2].exported # <<>>
    /\ YearlyMissingByMonth(records[1].recurrence_pattern)
    /\ Has(records[1].recurrence_pattern, "BYMONTHDAY=")
    /\ OneByMonth(records[1].exported, 6)
    /\ records[2].version = "legacy"
    /\ Has(records[2].recurrence_pattern, "BYDAY=")
    /\ OneByMonth(records[2].recurrence_pattern, 6)
    /\ OneByMonth(records[2].exported, 6)

\* C25: a Yearly pattern whose period is 12 * k months gives the interval of
\* k years: no INTERVAL for k = 1, INTERVAL=k otherwise
C25_YearlyIntervalInYears ==
    (/\ Structured
     /\ appointment.pattern.recurFrequency = YEARLY
     /\ appointment.pattern.period >= 12
     /\ appointment.pattern.period % 12 = 0)
        => IF appointment.pattern.period = 12
           THEN ~Has(rrule, "INTERVAL=")
           ELSE HasParam(rrule, "INTERVAL=", ToDigits(appointment.pattern.period \div 12))

\* subjects handed to the validator; the empty one also stands for none
Subjects == {"", "Standup"}

\* the configuration with logAllChanges set to l
Logging(cfg, l) == [cfg EXCEPT !.logAllChanges = l]

\* C26: what validateRecurrencePattern and validateAndCap return is what they
\* return with logAllChanges on and with it off; the subject reaches the
\* notices only
C26_DiagnosticsDoNotAffectResults ==
    /\ pc \in {"validated", "revalidated"}
            => \A l \in BOOLEAN :
                  validated = validateRecurrencePattern(Logging(config, l),
                                    appointment.pattern, startTime, rrule)
    /\ pc = "capped"
            => \A l \in BOOLEAN :
                  validated = validateAndCap(Logging(config, l), rrule, startTime).newPattern

\* validateAndCap has capped a rule with logAllChanges off: nothing is logged
\* for any subject, while the same call with logAllChanges on logs a warning
C26_Witness ==
    /\ pc = "capped"
    /\ ~config.logAllChanges
    /\ validated # rrule
    /\ \A subject \in Subjects :
          validateAndCapNotices(config, rrule, startTime, subject) = {}
    /\ \E subject \in Subjects :
          validateAndCapNotices(Logging(config, TRUE), rrule, startTime, subject) # {}
    /\ validateRecurrencePatternNotices(Logging(config, TRUE), appointment.pattern,
                                        startTime, "Standup", rrule) # {}

\* the value of the first BYDAY of the text, up to the next ";"
RECURSIVE ValueFrom(_, _)
ValueFrom(t, i) ==
    IF i > Len(t) \/ t[i] = ";" THEN <<>> ELSE <<t[i]>> \o ValueFrom(t, i + 1)

ByDayValue(t) == ValueFrom(t, IndexOf(t, <<"BYDAY=">>) + 1)

\* the ordinal of nth in 1..5: itself for 1..4, -1 for 5
OrdinalOf(nth) == IF nth = 5 THEN <<"-", "1">> ELSE ToDigits(nth)

\* one entry per flagged weekday from day k on, Sunday first, each with the
\* ordinal, separated by commas
RECURSIVE EntriesFrom(_, _, _)
EntriesFrom(weekdays, nth, k) ==
    IF k > 7 THEN <<>>
    ELSE IF weekdays[k]
    THEN OrdinalOf(nth) \o <<DayCodes[k]>>
            \o (IF \E j \in (k + 1)..7 : weekdays[j] THEN <<",">> ELSE <<>>)
            \o EntriesFrom(weekdays, nth, k + 1)
    ELSE EntriesFrom(weekdays, nth, k + 1)

\* the pattern is MonthNth with an ordinal in 1..5 and a flagged weekday
NthCase ==
    /\ Structured
    /\ appointment.pattern.patternType = 3
    /\ appointment.pattern.patternTypeSpecific.tag = "nth"
    /\ appointment.pattern.patternTypeSpecific.nth \in 1..5
    /\ \E k \in 1..7 : appointment.pattern.patternTypeSpecific.weekdays[k]

\* C27: for a MonthNth pattern with nth in 1..5 and a flagged weekday, BYDAY
\* has one entry per flagged weekday in the order SU..SA, each with the
\* ordinal, 1..4 as they are and 5 as -1
C27_NthByDayPerWeekday ==
    NthCase
        => /\ CountOf(rrule, "BYDAY=") = 1
           /\ ByDayValue(rrule) =
                 EntriesFrom(appointment.pattern.patternTypeSpecific.weekdays,
                             appointment.pattern.patternTypeSpecific.nth, 1)

\* the last Monday, Wednesday and Saturday of the month
C27_Witness ==
    /\ NthCase
    /\ appointment.pattern.patternTypeSpecific.nth = 5
    /\ appointment.pattern.patternTypeSpecific.weekdays = Days({2, 4, 7})
    /\ ByDayValue(rrule) = <<"-", "1", "MO", ",", "-", "1", "WE", ",", "-", "1", "SA">>

\* C28: a rule returned by the structured path for a start no later than 2100
\* has no UNTIL after 2100, and its UNTIL year is not later than the one the
\* builder wrote
C28_UntilNeverAfter2100 ==
    (/\ Structured
     /\ startTime.year <= 2100
     /\ ~Falsy(recurrence_pattern)
     /\ FirstUntilDate(recurrence_pattern) # 0)
        => /\ firstUntilYear(recurrence_pattern) <= 2100
           /\ firstUntilYear(recurrence_pattern) <= firstUntilYear(rrule)

\* C29: a rule of the structured path written with FREQ=DAILY and an UNTIL,
\* the FREQ=DAILY of an unknown frequency included, ends at most
\* maxYearsDaily years after the year of the start
C29_DailyRuleWithinDailyCap ==
    (/\ Structured
     /\ ~Falsy(recurrence_pattern)
     /\ includes(recurrence_pattern, <<"FREQ=", "DAILY">>)
     /\ FirstUntilDate(recurrence_pattern) # 0)
        => firstUntilYear(recurrence_pattern) - startTime.year <= config.maxYearsDaily

\* C30: for a text with a frequency and one UNTIL, in 2100 and with a time,
\* validateAndCap under the default caps and rowToEntry return the same text
C30_TextualCappersAgree ==
    (/\ pc = "repaired"
     /\ config = DEFAULT_CONFIG
     /\ firstFrequency(rrule) # "none"
     /\ CountOf(rrule, "UNTIL=") = 1
     /\ FirstUntilDate(rrule) # 0
     /\ firstUntilYear(rrule) = 2100
     /\ UntilWithTimeAt(rrule, FirstUntilDate(rrule)))
        => exported = validated

=============================================================================
